---- MODULE Spec2Model ----
(***************************************************************************)
(* Model of top-langs-action: the script that fetches the viewer's         *)
(* repositories, aggregates language byte sizes, ranks the top N languages *)
(* and renders a bar chart as SVG, which it writes to one file.            *)
(*                                                                         *)
(* Numbers.  Byte sizes are integers.  A percent is kept in tenths (the    *)
(* code rounds to one decimal with toFixed(1)), so 12.3 is 123.  An x      *)
(* coordinate is kept in thousandths, so that tenths-of-a-percent times a  *)
(* width in pixels, divided by 100, stays an integer.  NaN is the one      *)
(* non-number value the arithmetic of the code can produce (0 / 0); it is  *)
(* modelled by a value outside the range of the numbers, and the           *)
(* arithmetic operators below propagate it as IEEE 754 does.               *)
(***************************************************************************)
EXTENDS Integers, Sequences, FiniteSets, TLC

VARIABLES pc, token, topN, response, repos, totals, stats, cfg, svg,
          netCalls, written, exitCode, trace

vars == <<pc, token, topN, response, repos, totals, stats, cfg, svg,
          netCalls, written, exitCode, trace>>

----------------------------------------------------------------------------
(* Bounds of the model *)

MaxRepos == 2
MaxEdges == 2
MaxSize == 1
MaxFetched == 1
MaxFetchedEdges == 1
MaxBytes == 3
MaxTopN == 3

(* Language names of the repositories fed to the aggregator, and of the    *)
(* totals fed to the ranker.  A language name is an arbitrary string of    *)
(* the API response; "Other" is one of them.                               *)
RepoLangs == {"Go", "Rust"}
LangNames == {"Go", "Rust", "HTML", "Other"}

----------------------------------------------------------------------------
(* Numbers *)

NaN == -1

IsNaN(a) == a = NaN

Add(a, b) == IF IsNaN(a) \/ IsNaN(b) THEN NaN ELSE a + b

Mul(a, b) == IF IsNaN(a) \/ IsNaN(b) THEN NaN ELSE a * b

(* a > b in IEEE 754: false as soon as one side is NaN *)
Greater(a, b) == ~IsNaN(a) /\ ~IsNaN(b) /\ a > b

Min(a, b) == IF a < b THEN a ELSE b

(* variant: the percent truncated to one decimal instead of rounded *)
ToFixed1_floor(bytes, totalBytes) ==
    IF totalBytes = 0 THEN NaN
    ELSE (1000 * bytes) \div totalBytes

(* +(bytes / totalBytes * 100).toFixed(1), in tenths: the nearest tenth,   *)
(* a tie going to the larger one; 0 / 0 is NaN and "NaN" parses to NaN.    *)
ToFixed1(bytes, totalBytes) ==
    IF totalBytes = 0 THEN NaN
    ELSE (2000 * bytes + totalBytes) \div (2 * totalBytes)

----------------------------------------------------------------------------
(* Program constants *)

NUM_COLORS == 11
titleHeight == 20
numColumns == 2
squareSize == 12
DEFAULT_TOP_N == 5

(* default parameters of renderBarSVG *)
DefaultConfig == [width |-> 600, barHeight |-> 12, legendItemHeight |-> 25,
                  padding |-> 10]

(* the default parameters, and one other set of arguments *)
Configs == {DefaultConfig,
            [width |-> 300, barHeight |-> 40, legendItemHeight |-> 20,
             padding |-> 5]}

----------------------------------------------------------------------------
(* A JavaScript Map: a sequence of [language, bytes] in insertion order *)

MapHas(m, lang) == \E i \in 1..Len(m) : m[i].language = lang

MapGet(m, lang) ==
    LET i == CHOOSE i \in 1..Len(m) : m[i].language = lang IN m[i].bytes

(* Map.prototype.set: an existing key keeps its position *)
MapSet(m, lang, v) ==
    IF MapHas(m, lang)
    THEN [i \in 1..Len(m) |->
            IF m[i].language = lang THEN [language |-> lang, bytes |-> v]
            ELSE m[i]]
    ELSE Append(m, [language |-> lang, bytes |-> v])

(* totals.get(lang) || 0 *)
GetOrZero(m, lang) == IF MapHas(m, lang) THEN MapGet(m, lang) ELSE 0

----------------------------------------------------------------------------
(* aggregateLanguages *)

(* variant: totals.set(lang, size), the previous count overwritten *)
RECURSIVE AddEdges_overwrite(_, _)
AddEdges_overwrite(m, edges) ==
    IF edges = <<>> THEN m
    ELSE AddEdges_overwrite(MapSet(m, Head(edges).name, Head(edges).size),
                            Tail(edges))

(* the inner loop: totals.set(lang, (totals.get(lang) || 0) + size) *)
RECURSIVE AddEdges(_, _)
AddEdges(m, edges) ==
    IF edges = <<>> THEN m
    ELSE AddEdges(MapSet(m, Head(edges).name,
                         GetOrZero(m, Head(edges).name) + Head(edges).size),
                  Tail(edges))

(* variant: no check of isArchived *)
RECURSIVE AddRepos_noskip(_, _)
AddRepos_noskip(m, rs) ==
    IF rs = <<>> THEN m
    ELSE AddRepos_noskip(AddEdges(m, Head(rs).edges), Tail(rs))

(* the outer loop: archived repositories are skipped *)
RECURSIVE AddRepos(_, _)
AddRepos(m, rs) ==
    IF rs = <<>> THEN m
    ELSE IF Head(rs).isArchived THEN AddRepos(m, Tail(rs))
    ELSE AddRepos(AddEdges(m, Head(rs).edges), Tail(rs))

aggregateLanguages(rs) == AddRepos(<<>>, rs)

----------------------------------------------------------------------------
(* computeTopLanguages *)

RECURSIVE SumBytes(_)
SumBytes(es) == IF es = <<>> THEN 0 ELSE Head(es).bytes + SumBytes(Tail(es))

(* variant: an unstable sort, a later equal element moved forward *)
RECURSIVE KeepBefore_unstable(_, _)
KeepBefore_unstable(sorted, e) ==
    IF sorted = <<>> THEN 0
    ELSE IF Head(sorted).bytes > e.bytes
         THEN 1 + KeepBefore_unstable(Tail(sorted), e)
         ELSE 0

(* number of elements of a descending list that do not sort after e *)
RECURSIVE KeepBefore(_, _)
KeepBefore(sorted, e) ==
    IF sorted = <<>> THEN 0
    ELSE IF Head(sorted).bytes >= e.bytes
         THEN 1 + KeepBefore(Tail(sorted), e)
         ELSE 0

InsertDesc(sorted, e) ==
    LET k == KeepBefore(sorted, e) IN
    SubSeq(sorted, 1, k) \o <<e>> \o SubSeq(sorted, k + 1, Len(sorted))

(* entries.sort((a, b) => b.bytes - a.bytes): Array.prototype.sort is      *)
(* stable, so equal byte counts keep the order of the Map's entries.       *)
RECURSIVE SortFrom(_, _)
SortFrom(sorted, es) ==
    IF es = <<>> THEN sorted
    ELSE SortFrom(InsertDesc(sorted, Head(es)), Tail(es))

SortDesc(es) == SortFrom(<<>>, es)

(* entries.slice(0, topN) and entries.slice(topN), topN >= 0 *)
SliceTop(es, n) == SubSeq(es, 1, Min(n, Len(es)))

(* variant: entries.slice(topN + 1) *)
SliceRest_skip(es, n) == SubSeq(es, Min(n, Len(es)) + 2, Len(es))

SliceRest(es, n) == SubSeq(es, Min(n, Len(es)) + 1, Len(es))

computeTopLanguages(m, n) ==
    LET entries == SortDesc(m)
        totalBytes == SumBytes(entries)
        top == SliceTop(entries, n)
        rest == SliceRest(entries, n)
        result == [i \in 1..Len(top) |->
                     [language |-> top[i].language,
                      percent |-> ToFixed1(top[i].bytes, totalBytes)]]
    IN  IF Len(rest) > 0
        THEN Append(result, [language |-> "Other",
                             percent |-> ToFixed1(SumBytes(rest), totalBytes)])
        ELSE result

----------------------------------------------------------------------------
(* renderBarSVG: the geometry of the markup.  x coordinates in thousandths *)

(* variant: Math.floor instead of Math.ceil *)
RowCount_floor(n) == n \div numColumns

(* Math.ceil(stats.length / numColumns) *)
RowCount(n) == (n + numColumns - 1) \div numColumns

(* variant: a gap of one pixel between two segments *)
RECURSIVE XBar_gap(_, _, _)
XBar_gap(st, c, i) ==
    IF i = 1 THEN 1000 * c.padding
    ELSE Add(Add(XBar_gap(st, c, i - 1),
                 Mul(st[i - 1].percent, c.width - c.padding * 2)), 1000)

(* xBar before segment i: padding plus the slice widths drawn so far *)
RECURSIVE XBar(_, _, _)
XBar(st, c, i) ==
    IF i = 1 THEN 1000 * c.padding
    ELSE Add(XBar(st, c, i - 1),
             Mul(st[i - 1].percent, c.width - c.padding * 2))

renderBarSVG(st, c) ==
    LET colWidth == (1000 * (c.width - c.padding * 2)) \div numColumns
        rowCount == RowCount(Len(st))
        svgHeight == titleHeight + (c.padding * 2) + c.barHeight
                     + (rowCount * c.legendItemHeight) + c.padding
        barWidth == c.width - c.padding * 2
        legendStartY == titleHeight + c.padding + c.barHeight + c.padding
    IN  [width |-> c.width,
         height |-> svgHeight,
         background |-> [x |-> 0, y |-> 0, width |-> c.width,
                         height |-> svgHeight],
         title |-> [x |-> 500 * c.width, y |-> titleHeight],
         bar |-> [i \in 1..Len(st) |->
                    [x |-> XBar(st, c, i),
                     y |-> titleHeight + c.padding,
                     width |-> Mul(st[i].percent, barWidth),
                     height |-> c.barHeight,
                     color |-> (i - 1) % NUM_COLORS]],
         legend |-> [i \in 1..Len(st) |->
                    LET col == (i - 1) % numColumns
                        row == (i - 1) \div numColumns
                        currentX == 1000 * c.padding + col * colWidth
                        currentY == legendStartY + row * c.legendItemHeight
                    IN  [x |-> currentX,
                         y |-> currentY,
                         size |-> squareSize,
                         textX |-> currentX + 1000 * (squareSize + 8),
                         textY |-> currentY + squareSize - 1,
                         color |-> (i - 1) % NUM_COLORS,
                         language |-> st[i].language,
                         percent |-> st[i].percent]]]

NoSvg == [width |-> 0, height |-> 0,
          background |-> [x |-> 0, y |-> 0, width |-> 0, height |-> 0],
          title |-> [x |-> 0, y |-> 0], bar |-> <<>>, legend |-> <<>>]

----------------------------------------------------------------------------
(* Inputs *)

Edges == [name : RepoLangs, size : 0..MaxSize]

(* the nodes of a decoded response: at most n repositories, carrying at    *)
(* most e language edges in all                                            *)
RECURSIVE ReposUpTo(_, _)
ReposUpTo(n, e) ==
    IF n = 0 THEN {<<>>}
    ELSE {<<>>} \cup
         UNION {{<<[isArchived |-> a, edges |-> es]>> \o t :
                   a \in BOOLEAN, es \in [1..k -> Edges],
                   t \in ReposUpTo(n - 1, e - k)} : k \in 0..e}

InjSeqs(S, k) == {s \in [1..k -> S] : \A i, j \in 1..k : i # j => s[i] # s[j]}

(* the Maps aggregateLanguages can return: distinct languages in any order *)
(* of insertion, each with a non-negative byte count                       *)
AllTotals ==
    UNION {{[i \in 1..k |-> [language |-> ks[i], bytes |-> bs[i]]] :
              ks \in InjSeqs(LangNames, k), bs \in [1..k -> 0..MaxBytes]} :
           k \in 0..Cardinality(LangNames)}

(* the outcomes of fetchLanguages that throw *)
Failures == {"network_error", "not_ok", "bad_json", "errors", "bad_shape"}

Done(step) == \E i \in 1..Len(trace) : trace[i] = step

----------------------------------------------------------------------------
(* The script, top to bottom *)

Init ==
    /\ pc = "start"
    /\ token \in BOOLEAN
    /\ topN \in (0..MaxTopN) \cup {DEFAULT_TOP_N}
    /\ response = "none"
    /\ repos = <<>>
    /\ totals = <<>>
    /\ stats = <<>>
    /\ cfg = DefaultConfig
    /\ svg = NoSvg
    /\ netCalls = 0
    /\ written = 0
    /\ exitCode = -1
    /\ trace = <<>>

(* variant: the error is logged and the script goes on *)
MissingToken_continue ==
    /\ pc = "start"
    /\ ~token
    /\ pc' = "fetching"
    /\ netCalls' = netCalls + 1
    /\ UNCHANGED <<token, topN, response, repos, totals, stats, cfg, svg,
                   written, exitCode, trace>>

(* if (!GITHUB_TOKEN) { console.error(...); process.exit(1); } *)
MissingToken ==
    /\ pc = "start"
    /\ ~token
    /\ pc' = "exited"
    /\ exitCode' = 1
    /\ UNCHANGED <<token, topN, response, repos, totals, stats, cfg, svg,
                   netCalls, written, trace>>

(* main() is called: fetchLanguages issues the request and is awaited *)
CallMain ==
    /\ pc = "start"
    /\ token
    /\ pc' = "fetching"
    /\ netCalls' = netCalls + 1
    /\ UNCHANGED <<token, topN, response, repos, totals, stats, cfg, svg,
                   written, exitCode, trace>>

(* fetch rejects, res.ok is false, res.json() rejects, json.errors is set, *)
(* or json.data has not the expected shape: fetchLanguages throws          *)
FetchFails ==
    /\ pc = "fetching"
    /\ \E f \in Failures : response' = f
    /\ pc' = "rejected"
    /\ UNCHANGED <<token, topN, repos, totals, stats, cfg, svg, netCalls,
                   written, exitCode, trace>>

(* return json.data.viewer.repositories.nodes *)
FetchReturns ==
    /\ pc = "fetching"
    /\ response' = "ok"
    /\ \E rs \in ReposUpTo(MaxFetched, MaxFetchedEdges) : repos' = rs
    /\ pc' = "fetched"
    /\ trace' = Append(trace, "fetch")
    /\ UNCHANGED <<token, topN, totals, stats, cfg, svg, netCalls, written,
                   exitCode>>

(* const totals = aggregateLanguages(repos) *)
Aggregate ==
    /\ pc = "fetched"
    /\ totals' = aggregateLanguages(repos)
    /\ pc' = "aggregated"
    /\ trace' = Append(trace, "aggregate")
    /\ UNCHANGED <<token, topN, response, repos, stats, cfg, svg, netCalls,
                   written, exitCode>>

(* const stats = computeTopLanguages(totals, TOP_N) *)
Rank ==
    /\ pc = "aggregated"
    /\ stats' = computeTopLanguages(totals, topN)
    /\ pc' = "ranked"
    /\ trace' = Append(trace, "rank")
    /\ UNCHANGED <<token, topN, response, repos, totals, cfg, svg, netCalls,
                   written, exitCode>>

(* const svg = renderBarSVG(stats), called with the arguments c *)
RenderWith(c) ==
    /\ pc = "ranked"
    /\ cfg' = c
    /\ svg' = renderBarSVG(stats, c)
    /\ pc' = "rendered"
    /\ trace' = Append(trace, "render")
    /\ UNCHANGED <<token, topN, response, repos, totals, stats, netCalls,
                   written, exitCode>>

(* main calls renderBarSVG(stats): every parameter takes its default *)
Render == RenderWith(DefaultConfig)

(* fs.mkdirSync(dirname, { recursive: true }) *)
Mkdir ==
    /\ pc = "rendered"
    /\ pc' = "dir_ready"
    /\ trace' = Append(trace, "mkdir")
    /\ UNCHANGED <<token, topN, response, repos, totals, stats, cfg, svg,
                   netCalls, written, exitCode>>

(* fs.writeFileSync(absoluteOutputPath, svg) *)
WriteFile ==
    /\ pc = "dir_ready"
    /\ written' = written + 1
    /\ pc' = "resolved"
    /\ trace' = Append(trace, "write")
    /\ UNCHANGED <<token, topN, response, repos, totals, stats, cfg, svg,
                   netCalls, exitCode>>

(* mkdirSync or writeFileSync throws: main rejects, nothing is written *)
FsFails ==
    /\ pc \in {"rendered", "dir_ready"}
    /\ response' = "fs_error"
    /\ pc' = "rejected"
    /\ UNCHANGED <<token, topN, repos, totals, stats, cfg, svg, netCalls,
                   written, exitCode, trace>>

(* main().catch(err => { console.error(err); process.exit(1); }) *)
Catch ==
    /\ pc = "rejected"
    /\ pc' = "exited"
    /\ exitCode' = 1
    /\ UNCHANGED <<token, topN, response, repos, totals, stats, cfg, svg,
                   netCalls, written, trace>>

(* main resolved and nothing is pending: the process ends with code 0 *)
Exit ==
    /\ pc = "resolved"
    /\ pc' = "exited"
    /\ exitCode' = 0
    /\ UNCHANGED <<token, topN, response, repos, totals, stats, cfg, svg,
                   netCalls, written, trace>>

Next ==
    \/ MissingToken
    \/ CallMain
    \/ FetchFails
    \/ FetchReturns
    \/ Aggregate
    \/ Rank
    \/ Render
    \/ Mkdir
    \/ WriteFile
    \/ FsFails
    \/ Catch
    \/ Exit

Spec == Init /\ [][Next]_vars

(* the event loop runs every pending continuation *)
LiveSpec == Init /\ [][Next]_vars /\ WF_vars(Next)

----------------------------------------------------------------------------
(* aggregateLanguages on its own: any decoded response *)

InitAgg ==
    /\ pc = "fetched"
    /\ token = TRUE
    /\ topN = DEFAULT_TOP_N
    /\ response = "ok"
    /\ repos \in ReposUpTo(MaxRepos, MaxEdges)
    /\ totals = <<>>
    /\ stats = <<>>
    /\ cfg = DefaultConfig
    /\ svg = NoSvg
    /\ netCalls = 1
    /\ written = 0
    /\ exitCode = -1
    /\ trace = <<"fetch">>

NextAgg == Aggregate

SpecAgg == InitAgg /\ [][NextAgg]_vars

----------------------------------------------------------------------------
(* computeTopLanguages and renderBarSVG on their own: any totals, any topN *)

InitRank ==
    /\ pc = "aggregated"
    /\ token = TRUE
    /\ topN \in 0..MaxTopN
    /\ response = "ok"
    /\ repos = <<>>
    /\ totals \in AllTotals
    /\ stats = <<>>
    /\ cfg = DefaultConfig
    /\ svg = NoSvg
    /\ netCalls = 1
    /\ written = 0
    /\ exitCode = -1
    /\ trace = <<"fetch", "aggregate">>

RenderAny == \E c \in Configs : RenderWith(c)

NextRank ==
    \/ Rank
    \/ RenderAny

SpecRank == InitRank /\ [][NextRank]_vars

----------------------------------------------------------------------------
(* Helpers of the properties *)

Keys(m) == {m[i].language : i \in 1..Len(m)}

(* a Map as a mapping: its key set and the value of every key *)
AsMapping(m) == [l \in Keys(m) |-> MapGet(m, l)]

IndexOf(m, l) == CHOOSE i \in 1..Len(m) : m[i].language = l

PermsOf(s) ==
    {[i \in 1..Len(s) |-> s[p[i]]] :
       p \in {q \in [1..Len(s) -> 1..Len(s)] :
                \A i, j \in 1..Len(s) : i # j => q[i] # q[j]}}

(* rs with the edges of every record permuted *)
RECURSIVE EdgeReorderings(_)
EdgeReorderings(rs) ==
    IF rs = <<>> THEN {<<>>}
    ELSE {<<[isArchived |-> Head(rs).isArchived, edges |-> e]>> \o t :
            e \in PermsOf(Head(rs).edges), t \in EdgeReorderings(Tail(rs))}

(* every permutation of the records, and of the edges inside each record *)
Reorderings(rs) == UNION {EdgeReorderings(r) : r \in PermsOf(rs)}

NotArchived(r) == ~r.isArchived

RECURSIVE SumPercent(_)
SumPercent(st) ==
    IF st = <<>> THEN 0 ELSE Add(Head(st).percent, SumPercent(Tail(st)))

Abs(a) == IF a < 0 THEN -a ELSE a

(* the least r with r * d >= n *)
CeilDiv(n, d) == CHOOSE r \in 0..n : r * d >= n /\ (r = 0 \/ (r - 1) * d < n)

(* language a ranks before language b of the totals m: more bytes, or as   *)
(* many bytes and inserted earlier                                         *)
RanksBefore(m, a, b) ==
    \/ MapGet(m, a) > MapGet(m, b)
    \/ MapGet(m, a) = MapGet(m, b) /\ IndexOf(m, a) < IndexOf(m, b)

HasOther(st) == \E i \in 1..Len(st) : st[i].language = "Other"

BarRight(s) == Add(s.bar[Len(s.bar)].x, s.bar[Len(s.bar)].width)

BarLimit(c) == 1000 * (c.padding + (c.width - 2 * c.padding))

----------------------------------------------------------------------------
(* C1: for totals whose byte values sum to 0 (empty, or every language at  *)
(* 0 bytes) computeTopLanguages returns an empty ranking: no entry, and no *)
(* NaN percent.                                                            *)
C1_ZeroSumEmptyRanking ==
    (Done("rank") /\ SumBytes(totals) = 0) => stats = <<>>

(* C2: aggregateLanguages is order-independent: every permutation of the   *)
(* records, and of the edges inside the records, gives a mapping with the  *)
(* same key set and the same byte total for every key.                     *)
C2_OrderIndependent ==
    Done("aggregate") =>
        \A rs \in Reorderings(repos) :
            AsMapping(aggregateLanguages(rs)) = AsMapping(totals)

(* two records that count, whose exchange changes the insertion order of   *)
(* the Map and nothing else                                                *)
C2_Witness ==
    /\ Done("aggregate")
    /\ Len(repos) = 2
    /\ ~repos[1].isArchived /\ ~repos[2].isArchived
    /\ Len(totals) = 2
    /\ \A i \in 1..2 : totals[i].bytes > 0
    /\ aggregateLanguages(<<repos[2], repos[1]>>) # totals

(* C3: an archived record contributes nothing: the totals are those of the *)
(* list with every archived record removed.                                *)
C3_ArchivedExcluded ==
    Done("aggregate") =>
        totals = aggregateLanguages(SelectSeq(repos, NotArchived))

(* an archived record with bytes of a language no other record has *)
C3_Witness ==
    /\ Done("aggregate")
    /\ \E i, j \in 1..Len(repos) :
         /\ repos[i].isArchived
         /\ ~repos[j].isArchived
         /\ repos[j].edges # <<>>
         /\ \E e \in 1..Len(repos[i].edges) :
              /\ repos[i].edges[e].size > 0
              /\ ~MapHas(totals, repos[i].edges[e].name)

(* C4: the ranking has an entry labelled "Other" iff the number of         *)
(* languages in totals exceeds topN; when present it is the last entry;    *)
(* the ranking never has more than topN + 1 entries.                       *)
C4_OtherIffOverflow ==
    Done("rank") =>
        /\ HasOther(stats) <=> Len(totals) > topN
        /\ \A i \in 1..Len(stats) :
             stats[i].language = "Other" => i = Len(stats)
        /\ Len(stats) <= topN + 1

(* C4, amended: the ranking has min(topN, n) entries carrying languages of *)
(* totals, followed by one entry labelled "Other" iff n > topN, and never  *)
(* more than topN + 1 entries; an entry labelled "Other" exists iff        *)
(* n > topN, and is last, when totals has no language named "Other".       *)
C4_OverflowEntryIffOverflow ==
    Done("rank") =>
        LET k == Min(topN, Len(totals)) IN
        /\ Len(stats) <= topN + 1
        /\ Len(totals) > topN =>
             Len(stats) = k + 1 /\ stats[k + 1].language = "Other"
        /\ Len(totals) <= topN => Len(stats) = k
        /\ \A i \in 1..k : stats[i].language \in Keys(totals)
        /\ ~MapHas(totals, "Other") =>
             /\ HasOther(stats) <=> Len(totals) > topN
             /\ \A i \in 1..Len(stats) :
                  stats[i].language = "Other" => i = Len(stats)

(* more languages than topN: the overflow entry follows the top entries *)
C4_Witness ==
    /\ Done("rank")
    /\ topN >= 1
    /\ Len(totals) > topN
    /\ Len(stats) = topN + 1
    /\ stats[Len(stats)].language = "Other"
    /\ ~MapHas(totals, "Other")

(* C5: for totals with a positive byte sum, the percents of the ranking    *)
(* add up to a value within 0.05 * (topN + 1) of 100.0 (in tenths: within  *)
(* (topN + 1) / 2 of 1000).                                                *)
C5_PercentConservation ==
    (Done("rank") /\ SumBytes(totals) > 0) =>
        /\ ~IsNaN(SumPercent(stats))
        /\ 2 * Abs(SumPercent(stats) - 1000) <= topN + 1

(* a ranking with an overflow entry whose rounded percents miss 100.0 *)
C5_Witness ==
    /\ Done("rank")
    /\ SumBytes(totals) > 0
    /\ Len(stats) = topN + 1
    /\ HasOther(stats)
    /\ ~IsNaN(SumPercent(stats))
    /\ SumPercent(stats) # 1000

(* C6: the height of the SVG root and of the background rectangle is       *)
(* 20 + 2*padding + barHeight + ceil(len / columns) * legendItemHeight     *)
(* + padding, and every legend row (row floor(i / columns), from           *)
(* y = 20 + padding + barHeight + padding) lies inside that height.        *)
C6_HeightFormula ==
    Done("render") =>
        LET h == 20 + 2 * cfg.padding + cfg.barHeight
                 + CeilDiv(Len(stats), numColumns) * cfg.legendItemHeight
                 + cfg.padding
            startY == 20 + cfg.padding + cfg.barHeight + cfg.padding
        IN  /\ svg.height = h
            /\ svg.background.height = h
            /\ Len(svg.legend) = Len(stats)
            /\ \A i \in 1..Len(svg.legend) :
                 /\ svg.legend[i].y
                      = startY + ((i - 1) \div numColumns) * cfg.legendItemHeight
                 /\ svg.legend[i].y >= startY
                 /\ svg.legend[i].y + cfg.legendItemHeight <= svg.height

(* an odd number of entries, rendered with other arguments than defaults *)
C6_Witness ==
    /\ Done("render")
    /\ Len(stats) = 3
    /\ cfg # DefaultConfig
    /\ svg.height = 20 + 3 * cfg.padding + cfg.barHeight
                    + 2 * cfg.legendItemHeight

C7_Failed == ~token \/ response \in {"not_ok", "errors"}

C7_Safety ==
    /\ written <= 1
    /\ written = 1 =>
         /\ Len(trace) >= 4
         /\ SubSeq(trace, 1, 4) = <<"fetch", "aggregate", "rank", "render">>
         /\ totals = aggregateLanguages(repos)
         /\ stats = computeTopLanguages(totals, topN)
         /\ svg = renderBarSVG(stats, cfg)
    /\ C7_Failed =>
         /\ written = 0
         /\ pc \in {"start", "rejected", "exited"}
         /\ pc = "exited" => exitCode = 1
    /\ ~token => netCalls = 0

(* C7: the output file is written at most once, and only after fetch,      *)
(* aggregation, ranking and rendering have completed; when the token is    *)
(* missing, the response is not OK or it carries errors, no file is        *)
(* written and the process ends with exit code 1 (with a missing token,    *)
(* before any request is issued).                                          *)
C7_WriteOnceAfterPipeline ==
    /\ []C7_Safety
    /\ C7_Failed ~> (pc = "exited" /\ exitCode = 1 /\ written = 0)

(* a run that went through and wrote the chart of a non-empty ranking *)
C7_Witness ==
    /\ pc = "exited"
    /\ exitCode = 0
    /\ written = 1
    /\ Len(stats) > 0
    /\ Done("write")

(* C8: every key of the Map returned by aggregateLanguages has a strictly  *)
(* positive byte count; an edge of size 0 creates no key.                  *)
C8_KeysPositive ==
    Done("aggregate") => \A i \in 1..Len(totals) : totals[i].bytes > 0

(* C9: the entries of the ranking other than the overflow entry are the    *)
(* first min(topN, n) languages of totals by descending byte count, equal  *)
(* byte counts keeping the insertion order of totals; no language of the   *)
(* overflow set has more bytes than a language of the top set.  The top    *)
(* entries are taken by position: they are the entries before the          *)
(* appended overflow entry.                                                *)
C9_TopIsStableDescendingPrefix ==
    Done("rank") =>
        LET k == Min(topN, Len(totals))
            topLangs == {stats[i].language : i \in 1..k}
        IN  /\ Len(stats) \in {k, k + 1}
            /\ Len(stats) = k + 1 => stats[k + 1].language = "Other"
            /\ \A i \in 1..k : stats[i].language \in Keys(totals)
            /\ \A i, j \in 1..k :
                 i < j => RanksBefore(totals, stats[i].language,
                                      stats[j].language)
            /\ \A i \in 1..k : \A l \in Keys(totals) \ topLangs :
                 /\ RanksBefore(totals, stats[i].language, l)
                 /\ MapGet(totals, l) <= MapGet(totals, stats[i].language)

(* the sort moves a language forward, and a tie is cut by the split *)
C9_Witness ==
    /\ Done("rank")
    /\ topN >= 2
    /\ Len(totals) > topN
    /\ totals[1].bytes < totals[Len(totals)].bytes
    /\ \E l \in Keys(totals) :
         /\ l \notin {stats[i].language : i \in 1..topN}
         /\ MapGet(totals, l) = MapGet(totals, stats[topN].language)
         /\ MapGet(totals, l) > 0

(* C10: the bar segments start at x = padding, each begins where the       *)
(* previous one ends, and the right edge of the last one never exceeds     *)
(* padding + (width - 2*padding).                                          *)
C10_BarWithinRegion ==
    (Done("render") /\ Len(svg.bar) > 0) =>
        /\ svg.bar[1].x = 1000 * cfg.padding
        /\ \A i \in 1..(Len(svg.bar) - 1) :
             svg.bar[i + 1].x = Add(svg.bar[i].x, svg.bar[i].width)
        /\ ~Greater(BarRight(svg), BarLimit(cfg))

(* C10, amended: the segments start at x = padding, each begins where the  *)
(* previous one ends, and the right edge of the last one never exceeds     *)
(* padding + (width - 2*padding) by more than 0.05% of the bar width per   *)
(* entry of the ranking, that is by more than 0.05 * (topN + 1) percent.   *)
C10_BarOverrunBounded ==
    (Done("render") /\ Len(svg.bar) > 0) =>
        /\ Len(svg.bar) = Len(stats)
        /\ svg.bar[1].x = 1000 * cfg.padding
        /\ \A i \in 1..(Len(svg.bar) - 1) :
             svg.bar[i + 1].x = Add(svg.bar[i].x, svg.bar[i].width)
        /\ ~Greater(Mul(2, Add(BarRight(svg), -BarLimit(cfg))),
                    Len(stats) * (cfg.width - 2 * cfg.padding))
        /\ ~Greater(Mul(2, Add(BarRight(svg), -BarLimit(cfg))),
                    (topN + 1) * (cfg.width - 2 * cfg.padding))

(* a bar of several segments that runs past the bar region *)
C10_Witness ==
    /\ Done("render")
    /\ Len(svg.bar) >= 3
    /\ Greater(BarRight(svg), BarLimit(cfg))

====
